---- MODULE Spec2Model ----
(***************************************************************************)
(* K8s Calculator (src/main.py): the module-level bootstrap of the MySQL   *)
(* store (probe loop, CREATE DATABASE IF NOT EXISTS, create_all), the      *)
(* log_requests middleware, the get_db session scope and the /add handler. *)
(*                                                                         *)
(* The store, the log file and the web framework are the environment: a    *)
(* call into the store (probe, DDL, db.add, db.commit, db.rollback) either *)
(* completes or raises, chosen nondeterministically.                       *)
(***************************************************************************)
EXTENDS Integers, Sequences, FiniteSets, TLC

\* ------------------------------------------------------------------ bounds
\* Number of request slots (requests that may be in flight together).
NumReqs == 2
\* Finite operands are the floats 1.0 .. MaxOperand.
MaxOperand == 1
\* Number of times the process is started against the same store.
MaxStarts == 2

\* --------------------------------------------------------- program constants
\* for i in range(30)
MaxAttempts == 30
\* raise HTTPException(status_code=500, ...)
ServerFaultStatus == 500
\* FastAPI's status of a response built from a returned value
OkStatus == 200

MYSQL_DB == "calculator"
TableName == "calculations"
ServerFaultDetail == "Internal server error"

Reqs == 1..NumReqs

\* ------------------------------------------------------------------ floats
\* A Python float: a finite value, NaN or an infinity (v is the sign).
Fin(n) == [k |-> "fin", v |-> n]
NaN == [k |-> "nan", v |-> 0]
PosInf == [k |-> "inf", v |-> 1]
NoFloat == [k |-> "none", v |-> 0]

IsFinite(x) == x.k = "fin"

\* a + b on floats (IEEE 754): NaN absorbs, inf - inf is NaN, inf absorbs.
FAdd(x, y) ==
    IF x.k = "nan" \/ y.k = "nan" THEN NaN
    ELSE IF x.k = "inf" /\ y.k = "inf" THEN (IF x.v = y.v THEN x ELSE NaN)
    ELSE IF x.k = "inf" THEN x
    ELSE IF y.k = "inf" THEN y
    ELSE Fin(x.v + y.v)

FiniteOperands == {Fin(n) : n \in 1..MaxOperand}

\* The query parameters a: float, b: float accept every float, NaN and inf
\* included. The requests tried: every pair of finite operands, one request
\* with NaN as a, one with +inf as b.
Inputs == (FiniteOperands \X FiniteOperands) \cup {<<NaN, Fin(1)>>, <<Fin(1), PosInf>>}

\* ---------------------------------------------------------------- outcomes
\* What a stage hands to its caller: a response, or a raised exception.
NoOutcome == [kind |-> "none", status |-> 0, result |-> NoFloat, detail |-> "", exc |-> ""]
Response(status, result, detail) ==
    [kind |-> "response", status |-> status, result |-> result, detail |-> detail, exc |-> ""]
Raised(exc, status, detail) ==
    [kind |-> "raise", status |-> status, result |-> NoFloat, detail |-> detail, exc |-> exc]

\* return {"result": result}
SuccessPayload(result) == Response(OkStatus, result, "")
\* HTTPException(status_code=500, detail="Internal server error")
HTTPException500 == Raised("HTTPException", ServerFaultStatus, ServerFaultDetail)
\* an error of the persistence layer (db.add, db.commit, db.rollback)
StoreError == Raised("SQLAlchemyError", 0, "")
\* reading the local `response` before it was ever assigned
UnboundLocalError == Raised("UnboundLocalError", 0, "")

\* One line of the log file (or one call on the session), per request.
Event(ev, id, status) == [ev |-> ev, id |-> id, status |-> status]

VARIABLES
    boot,           \* position of the module-level start-up code
    i,              \* the loop variable of `for i in range(30)`
    probes,         \* probes made in this run
    firstOk,        \* number of the probe that succeeded in this run, 0 if none
    sleeps,         \* time.sleep(2) calls made in this run
    provOps,        \* provisioning statements issued in this run
    bootError,      \* the exception that ended start-up, "" if none
    starts,         \* how many times the process was started
    databases,      \* the store: databases present
    tables,         \* the store: tables present in MYSQL_DB
    schemaAtStart,  \* the store's schema when this run started
    committed,      \* the store: committed rows of `calculations`
    pc,             \* per request: position in middleware / scope / handler
    args,           \* per request: the operands a, b
    request_id,     \* per request: the middleware's correlation id
    session,        \* per request: the Session yielded by get_db
    trace,          \* per request: log lines and session calls, in order
    handler_out,    \* per request: what add() returned or raised
    scope_out,      \* per request: what left get_db's generator
    next_out,       \* per request: what call_next returned or raised
    final           \* per request: what left log_requests

bootVars == <<boot, i, probes, firstOk, sleeps, provOps, bootError, starts>>
schemaVars == <<databases, tables, schemaAtStart>>
reqVars == <<pc, args, request_id, session, trace, handler_out, scope_out, next_out, final>>
vars == <<bootVars, schemaVars, committed, reqVars>>

NoSession == [state |-> "none", handle |-> 0, pending |-> {}, closes |-> 0]
NoArgs == [a |-> NoFloat, b |-> NoFloat]

Schema == [databases |-> databases, tables |-> tables]

\* ---------------------------------------------------------------- start-up
ProcessState ==
    /\ boot = "probe"
    /\ i = 0
    /\ probes = 0
    /\ firstOk = 0
    /\ sleeps = 0
    /\ provOps = <<>>
    /\ bootError = ""
    /\ pc = [r \in Reqs |-> "idle"]
    /\ args = [r \in Reqs |-> NoArgs]
    /\ request_id = [r \in Reqs |-> 0]
    /\ session = [r \in Reqs |-> NoSession]
    /\ trace = [r \in Reqs |-> <<>>]
    /\ handler_out = [r \in Reqs |-> NoOutcome]
    /\ scope_out = [r \in Reqs |-> NoOutcome]
    /\ next_out = [r \in Reqs |-> NoOutcome]
    /\ final = [r \in Reqs |-> NoOutcome]

\* The store before the first start: nothing, the database only, or the
\* database with its table; no rows yet.
Init ==
    /\ ProcessState
    /\ starts = 1
    /\ databases \in {{}, {MYSQL_DB}}
    /\ tables \in {{}, {TableName}}
    /\ tables # {} => databases # {}
    /\ schemaAtStart = [databases |-> databases, tables |-> tables]
    /\ committed = {}

\* Mutant: the loop is left after the first probe whatever it answered.
AfterProbe_Always(reachable) == "create_db"

\* Mutant: the success branch lacks its break, the loop goes on to the sleep.
AfterProbe_NoBreak(reachable) == "sleep"

\* try: ... break / except Exception: ... -- where control goes after a probe.
AfterProbe(reachable) == IF reachable THEN "create_db" ELSE "sleep"

\* One iteration's try block: connect and SELECT 1. Success breaks the loop.
Probe ==
    /\ boot = "probe"
    /\ probes' = probes + 1
    /\ \E reachable \in BOOLEAN :
          /\ boot' = AfterProbe(reachable)
          /\ firstOk' = IF reachable /\ firstOk = 0 THEN probes + 1 ELSE firstOk
    /\ UNCHANGED <<i, sleeps, provOps, bootError, starts, schemaVars, committed, reqVars>>

\* Mutant: the loop has no else clause, start-up goes on to provisioning.
LoopElse_FallThrough == [boot |-> "create_db", bootError |-> ""]

\* for ... else: raise RuntimeError("MySQL not reachable") -- where control
\* goes when range(30) is used up.
LoopElse == [boot |-> "fatal", bootError |-> "RuntimeError"]

\* Mutant: no sleep after the last failed probe.
Sleep_SkipLast ==
    /\ boot = "sleep"
    /\ IF i + 1 < MaxAttempts
       THEN /\ sleeps' = sleeps + 1
            /\ i' = i + 1
            /\ boot' = "probe"
            /\ bootError' = bootError
       ELSE /\ sleeps' = sleeps
            /\ i' = i
            /\ boot' = "fatal"
            /\ bootError' = "RuntimeError"
    /\ UNCHANGED <<probes, firstOk, provOps, starts, schemaVars, committed, reqVars>>

\* except Exception: time.sleep(2); then the next iteration, or the loop's
\* else clause once range(30) is used up.
Sleep ==
    /\ boot = "sleep"
    /\ sleeps' = sleeps + 1
    /\ IF i + 1 < MaxAttempts
       THEN /\ i' = i + 1
            /\ boot' = "probe"
            /\ bootError' = bootError
       ELSE /\ i' = i
            /\ boot' = LoopElse.boot
            /\ bootError' = LoopElse.bootError
    /\ UNCHANGED <<probes, firstOk, provOps, starts, schemaVars, committed, reqVars>>

\* Mutant: CREATE DATABASE without IF NOT EXISTS, the store's error 1007
\* when the database is present.
CreateDatabase_Plain(dbs) ==
    IF MYSQL_DB \in dbs
    THEN [err |-> "DatabaseExists", databases |-> dbs]
    ELSE [err |-> "", databases |-> dbs \cup {MYSQL_DB}]

\* The store's CREATE DATABASE IF NOT EXISTS: no error when it is present.
CreateDatabaseIfNotExists(dbs) == [err |-> "", databases |-> dbs \cup {MYSQL_DB}]

\* create_all(checkfirst): CREATE TABLE only for the tables that are absent.
CreateAll(tbls) == [err |-> "", tables |-> tbls \cup {TableName}]

\* Mutant: a failing CREATE DATABASE is taken for "not ready yet" and the
\* probe loop is entered again.
CreateDatabase_Retried ==
    /\ boot = "create_db"
    /\ provOps' = Append(provOps, "create_database")
    /\ \E fails \in BOOLEAN :
          IF fails
          THEN /\ boot' = "sleep"
               /\ databases' = databases
          ELSE /\ boot' = "create_tables"
               /\ databases' = databases \cup {MYSQL_DB}
    /\ UNCHANGED <<i, probes, firstOk, sleeps, bootError, starts, tables, schemaAtStart,
                   committed, reqVars>>

\* try: CREATE DATABASE IF NOT EXISTS; commit / except Exception: raise.
CreateDatabase ==
    /\ boot = "create_db"
    /\ provOps' = Append(provOps, "create_database")
    /\ \E fails \in BOOLEAN :
          LET res == CreateDatabaseIfNotExists(databases) IN
          IF fails \/ res.err # ""
          THEN /\ boot' = "fatal"
               /\ bootError' = IF fails THEN "OperationalError" ELSE res.err
               /\ databases' = databases
          ELSE /\ boot' = "create_tables"
               /\ bootError' = bootError
               /\ databases' = res.databases
    /\ UNCHANGED <<i, probes, firstOk, sleeps, starts, tables, schemaAtStart, committed, reqVars>>

CreateTables ==
    /\ boot = "create_tables"
    /\ provOps' = Append(provOps, "create_tables")
    /\ \E fails \in BOOLEAN :
          LET res == CreateAll(tables) IN
          IF fails \/ res.err # ""
          THEN /\ boot' = "fatal"
               /\ bootError' = IF fails THEN "OperationalError" ELSE res.err
               /\ tables' = tables
          ELSE /\ boot' = "ready"
               /\ bootError' = bootError
               /\ tables' = res.tables
    /\ UNCHANGED <<i, probes, firstOk, sleeps, starts, databases, schemaAtStart, committed, reqVars>>

\* The process is started again (after a fatal start-up, or a redeploy
\* before any request was taken): module state is fresh, the store is kept.
Restart ==
    /\ boot \in {"ready", "fatal"}
    /\ starts < MaxStarts
    /\ \A r \in Reqs : pc[r] = "idle"
    /\ boot' = "probe"
    /\ i' = 0
    /\ probes' = 0
    /\ firstOk' = 0
    /\ sleeps' = 0
    /\ provOps' = <<>>
    /\ bootError' = ""
    /\ starts' = starts + 1
    /\ schemaAtStart' = Schema
    /\ UNCHANGED <<databases, tables, committed, reqVars>>

\* ------------------------------------------------------------ log_requests
\* str(uuid.uuid4()): a value no other call returns (a collision of two
\* 122-bit random values is neglected); the value stands for the call.
uuid4(r) == r

\* Mutant: REQUEST_END is logged on the way in, before call_next.
log_requests_start_EndEarly(r, a, b) ==
    /\ boot = "ready"
    /\ pc[r] = "idle"
    /\ args' = [args EXCEPT ![r] = [a |-> a, b |-> b]]
    /\ request_id' = [request_id EXCEPT ![r] = r]
    /\ trace' = [trace EXCEPT ![r] =
          @ \o <<Event("REQUEST_START", r, 0), Event("REQUEST_END", r, 0)>>]
    /\ pc' = [pc EXCEPT ![r] = "call_next"]
    /\ UNCHANGED <<bootVars, schemaVars, committed, session, handler_out, scope_out,
                   next_out, final>>

\* log_requests up to `await call_next(request)`: the correlation id and the
\* REQUEST_START line. The app exists, and takes requests, only once the
\* module-level start-up code has run to its end.
log_requests_start(r, a, b) ==
    /\ boot = "ready"
    /\ pc[r] = "idle"
    /\ args' = [args EXCEPT ![r] = [a |-> a, b |-> b]]
    /\ request_id' = [request_id EXCEPT ![r] = uuid4(r)]
    /\ trace' = [trace EXCEPT ![r] = Append(@, Event("REQUEST_START", uuid4(r), 0))]
    /\ pc' = [pc EXCEPT ![r] = "call_next"]
    /\ UNCHANGED <<bootVars, schemaVars, committed, session, handler_out, scope_out,
                   next_out, final>>

\* ------------------------------------------------------------------ get_db
\* Mutant: one module-level Session, handed to every request.
SessionLocal_Shared(r) == 1

\* SessionLocal(): a new Session object on every call; the object stands
\* for the call that made it.
SessionLocal(r) == r

\* get_db up to its yield.
get_db_open(r) ==
    /\ pc[r] = "call_next"
    /\ session' = [session EXCEPT ![r] =
          [state |-> "open", handle |-> SessionLocal(r), pending |-> {}, closes |-> 0]]
    /\ trace' = [trace EXCEPT ![r] = Append(@, Event("DB_SESSION_OPENED", 0, 0))]
    /\ pc' = [pc EXCEPT ![r] = "add"]
    /\ UNCHANGED <<bootVars, schemaVars, committed, args, request_id, handler_out,
                   scope_out, next_out, final>>

\* --------------------------------------------------------------------- add
\* Mutant: the second operand is dropped.
Sum_FirstOnly(a, b) == a

\* result = a + b
Sum(a, b) == FAdd(a, b)

\* Calculation(operation="add", operand1=a, operand2=b, result=result). The
\* columns the store fills in (id, created_at) are read by nothing here;
\* req tags the request that made the row.
Calculation(a, b, result, r) ==
    [operation |-> "add", operand1 |-> a, operand2 |-> b, result |-> result, req |-> r]

\* Mutant: the except clause returns a result instead of raising.
HandlerFailure_ReturnsResult == Response(OkStatus, NoFloat, "")

\* Mutant: detail=str(e), the internal error text goes to the caller.
HandlerFailure_Leak == Raised("HTTPException", ServerFaultStatus, "SQLAlchemyError")

\* except Exception: raise HTTPException(status_code=500, detail=...)
HandlerFailure == HTTPException500

\* Mutant: the commit replaces the table's content by the new row.
add_Replace(r) ==
    /\ pc[r] = "add"
    /\ LET a == args[r].a
           b == args[r].b
           result == FAdd(a, b)
           row == [operation |-> "add", operand1 |-> a, operand2 |-> b,
                   result |-> result, req |-> r]
           user == Event("USER_ACTION", 0, 0)
       IN
          \/ /\ trace' = [trace EXCEPT ![r] =
                   @ \o <<user, Event("db.add!", 0, 0), Event("ADD_FAILED", 0, 0)>>]
             /\ handler_out' = [handler_out EXCEPT ![r] = HTTPException500]
             /\ UNCHANGED <<session, committed>>
          \/ /\ trace' = [trace EXCEPT ![r] =
                   @ \o <<user, Event("db.add", 0, 0), Event("db.commit!", 0, 0),
                          Event("ADD_FAILED", 0, 0)>>]
             /\ session' = [session EXCEPT ![r].pending = {row}]
             /\ handler_out' = [handler_out EXCEPT ![r] = HTTPException500]
             /\ UNCHANGED committed
          \/ /\ trace' = [trace EXCEPT ![r] =
                   @ \o <<user, Event("db.add", 0, 0), Event("db.commit", 0, 0),
                          Event("ADD_SUCCESS", 0, 0)>>]
             /\ committed' = {row}
             /\ handler_out' = [handler_out EXCEPT ![r] = SuccessPayload(result)]
             /\ UNCHANGED session
    /\ pc' = [pc EXCEPT ![r] = "scope"]
    /\ UNCHANGED <<bootVars, schemaVars, args, request_id, scope_out, next_out, final>>

\* Mutant: the handler leaves the commit to get_db (which only logs
\* DB_SESSION_COMMIT): the row is added, never committed.
add_NoCommit(r) ==
    /\ pc[r] = "add"
    /\ LET a == args[r].a
           b == args[r].b
           result == FAdd(a, b)
           row == [operation |-> "add", operand1 |-> a, operand2 |-> b,
                   result |-> result, req |-> r]
           user == Event("USER_ACTION", 0, 0)
       IN
          \/ /\ trace' = [trace EXCEPT ![r] =
                   @ \o <<user, Event("db.add!", 0, 0), Event("ADD_FAILED", 0, 0)>>]
             /\ handler_out' = [handler_out EXCEPT ![r] = HTTPException500]
             /\ UNCHANGED <<session, committed>>
          \/ /\ trace' = [trace EXCEPT ![r] =
                   @ \o <<user, Event("db.add", 0, 0), Event("ADD_SUCCESS", 0, 0)>>]
             /\ session' = [session EXCEPT ![r].pending = {row}]
             /\ handler_out' = [handler_out EXCEPT ![r] = SuccessPayload(result)]
             /\ UNCHANGED committed
    /\ pc' = [pc EXCEPT ![r] = "scope"]
    /\ UNCHANGED <<bootVars, schemaVars, args, request_id, scope_out, next_out, final>>

\* The handler body: USER_ACTION, then db.add and db.commit inside the try.
\* db.add raises, or db.commit raises (the row stays pending in the
\* session), or the row is committed and the result returned.
add(r) ==
    /\ pc[r] = "add"
    /\ LET a == args[r].a
           b == args[r].b
           result == Sum(a, b)
           row == Calculation(a, b, result, r)
           user == Event("USER_ACTION", 0, 0)
       IN
          \/ /\ trace' = [trace EXCEPT ![r] =
                   @ \o <<user, Event("db.add!", 0, 0), Event("ADD_FAILED", 0, 0)>>]
             /\ handler_out' = [handler_out EXCEPT ![r] = HandlerFailure]
             /\ UNCHANGED <<session, committed>>
          \/ /\ trace' = [trace EXCEPT ![r] =
                   @ \o <<user, Event("db.add", 0, 0), Event("db.commit!", 0, 0),
                          Event("ADD_FAILED", 0, 0)>>]
             /\ session' = [session EXCEPT ![r].pending = {row}]
             /\ handler_out' = [handler_out EXCEPT ![r] = HandlerFailure]
             /\ UNCHANGED committed
          \/ /\ trace' = [trace EXCEPT ![r] =
                   @ \o <<user, Event("db.add", 0, 0), Event("db.commit", 0, 0),
                          Event("ADD_SUCCESS", 0, 0)>>]
             /\ committed' = committed \cup {row}
             /\ handler_out' = [handler_out EXCEPT ![r] = SuccessPayload(result)]
             /\ UNCHANGED session
    /\ pc' = [pc EXCEPT ![r] = "scope"]
    /\ UNCHANGED <<bootVars, schemaVars, args, request_id, scope_out, next_out, final>>

\* ------------------------------------------------------- get_db, after yield
\* db.rollback(): the pending rows of the transaction are discarded.
Rollback(s) == [s EXCEPT !.pending = {}]

\* Mutant: db.close() is missing, the handle stays checked out.
Close_Leak(s) == s

\* db.close(): the handle goes back; whatever was pending is gone with it.
Close(s) == [s EXCEPT !.state = "closed", !.pending = {}, !.closes = @ + 1]

\* Mutant: the except clause lacks its raise, the failure is swallowed.
ExceptClause_Swallow(incoming, rollbackRaised) ==
    IF rollbackRaised THEN StoreError ELSE Response(OkStatus, NoFloat, "")

\* except Exception: ...; db.rollback(); raise -- what leaves the except
\* clause: the exception that came in, or the one db.rollback() raised.
ExceptClause(incoming, rollbackRaised) == IF rollbackRaised THEN StoreError ELSE incoming

\* Mutant: DB_SESSION_COMMIT is logged in the finally clause, on both paths.
get_db_exit_CommitAlways(r) ==
    /\ pc[r] = "scope"
    /\ LET closing == <<Event("DB_SESSION_COMMIT", 0, 0), Event("db.close", 0, 0),
                        Event("DB_SESSION_CLOSED", 0, 0)>> IN
          IF handler_out[r].kind = "response"
          THEN /\ trace' = [trace EXCEPT ![r] = @ \o closing]
               /\ session' = [session EXCEPT ![r] =
                     [@ EXCEPT !.state = "closed", !.pending = {}, !.closes = @ + 1]]
               /\ scope_out' = [scope_out EXCEPT ![r] = handler_out[r]]
          ELSE /\ trace' = [trace EXCEPT ![r] =
                     @ \o <<Event("DB_SESSION_ROLLBACK", 0, 0), Event("db.rollback", 0, 0)>>
                       \o closing]
               /\ session' = [session EXCEPT ![r] =
                     [@ EXCEPT !.state = "closed", !.pending = {}, !.closes = @ + 1]]
               /\ scope_out' = [scope_out EXCEPT ![r] = handler_out[r]]
    /\ pc' = [pc EXCEPT ![r] = "respond"]
    /\ UNCHANGED <<bootVars, schemaVars, committed, args, request_id, handler_out,
                   next_out, final>>

\* Mutant: the rollback is not confined to the request's own transaction,
\* it takes the rows other requests committed with it.
get_db_exit_RollbackShared(r) ==
    /\ pc[r] = "scope"
    /\ LET closing == <<Event("db.close", 0, 0), Event("DB_SESSION_CLOSED", 0, 0)>> IN
          IF handler_out[r].kind = "response"
          THEN /\ trace' = [trace EXCEPT ![r] =
                     @ \o <<Event("DB_SESSION_COMMIT", 0, 0)>> \o closing]
               /\ session' = [session EXCEPT ![r] =
                     [@ EXCEPT !.state = "closed", !.pending = {}, !.closes = @ + 1]]
               /\ scope_out' = [scope_out EXCEPT ![r] = handler_out[r]]
               /\ committed' = committed
          ELSE /\ trace' = [trace EXCEPT ![r] =
                     @ \o <<Event("DB_SESSION_ROLLBACK", 0, 0), Event("db.rollback", 0, 0)>>
                       \o closing]
               /\ session' = [session EXCEPT ![r] =
                     [@ EXCEPT !.state = "closed", !.pending = {}, !.closes = @ + 1]]
               /\ scope_out' = [scope_out EXCEPT ![r] = handler_out[r]]
               /\ committed' = {}
    /\ pc' = [pc EXCEPT ![r] = "respond"]
    /\ UNCHANGED <<bootVars, schemaVars, args, request_id, handler_out, next_out, final>>

\* The generator resumed after the handler: DB_SESSION_COMMIT on a normal
\* return; DB_SESSION_ROLLBACK, db.rollback() and the re-raise when the
\* handler's exception is thrown in at the yield; db.close() and
\* DB_SESSION_CLOSED in the finally clause either way.
get_db_exit(r) ==
    /\ pc[r] = "scope"
    /\ LET closing == <<Event("db.close", 0, 0), Event("DB_SESSION_CLOSED", 0, 0)>> IN
          IF handler_out[r].kind = "response"
          THEN /\ trace' = [trace EXCEPT ![r] =
                     @ \o <<Event("DB_SESSION_COMMIT", 0, 0)>> \o closing]
               /\ session' = [session EXCEPT ![r] = Close(@)]
               /\ scope_out' = [scope_out EXCEPT ![r] = handler_out[r]]
          ELSE \E rollbackRaised \in BOOLEAN :
               /\ trace' = [trace EXCEPT ![r] =
                     @ \o <<Event("DB_SESSION_ROLLBACK", 0, 0),
                            Event(IF rollbackRaised THEN "db.rollback!" ELSE "db.rollback", 0, 0)>>
                       \o closing]
               /\ session' = [session EXCEPT ![r] =
                     Close(IF rollbackRaised THEN @ ELSE Rollback(@))]
               /\ scope_out' = [scope_out EXCEPT ![r] =
                     ExceptClause(handler_out[r], rollbackRaised)]
    /\ pc' = [pc EXCEPT ![r] = "respond"]
    /\ UNCHANGED <<bootVars, schemaVars, committed, args, request_id, handler_out,
                   next_out, final>>

\* ------------------------------------------------- log_requests, after await
\* What `await call_next(request)` gives the middleware: the handler's
\* return value as a 200 response, an HTTPException as the response with its
\* status and detail, any other exception raised on.
call_next(out) ==
    IF out.kind = "raise" /\ out.exc = "HTTPException"
    THEN Response(out.status, NoFloat, out.detail)
    ELSE out

\* finally: the REQUEST_END line reads the local `response`, which is bound
\* only if call_next returned; reading it unbound raises UnboundLocalError
\* before anything is logged.
Finally(id, out) ==
    IF out.kind = "response"
    THEN [logged |-> <<Event("REQUEST_END", id, out.status)>>, leaves |-> out]
    ELSE [logged |-> <<>>, leaves |-> UnboundLocalError]

log_requests_end(r) ==
    /\ pc[r] = "respond"
    /\ LET out == call_next(scope_out[r])
           fin == Finally(request_id[r], out)
       IN /\ next_out' = [next_out EXCEPT ![r] = out]
          /\ trace' = [trace EXCEPT ![r] = @ \o fin.logged]
          /\ final' = [final EXCEPT ![r] = fin.leaves]
    /\ pc' = [pc EXCEPT ![r] = "done"]
    /\ UNCHANGED <<bootVars, schemaVars, committed, args, request_id, session,
                   handler_out, scope_out>>

\* ---------------------------------------------------------- specifications
Admit == \E r \in Reqs : \E inp \in Inputs : log_requests_start(r, inp[1], inp[2])

Serve ==
    \/ \E r \in Reqs : get_db_open(r)
    \/ \E r \in Reqs : add(r)
    \/ \E r \in Reqs : get_db_exit(r)
    \/ \E r \in Reqs : log_requests_end(r)

Bootstrap ==
    \/ Probe
    \/ Sleep
    \/ CreateDatabase
    \/ CreateTables
    \/ Restart

Next == Bootstrap \/ Admit \/ Serve

\* The whole program: start-up, then requests.
Spec == Init /\ [][Next]_vars

\* Start-up and the admission of requests.
NextBoot == Bootstrap \/ Admit

SpecBoot == Init /\ [][NextBoot]_vars

\* The state in which the app starts to serve: the first start, the store
\* answered the first probe, both provisioning statements ran.
InitServe ==
    /\ boot = "ready"
    /\ i = 0
    /\ probes = 1
    /\ firstOk = 1
    /\ sleeps = 0
    /\ provOps = <<"create_database", "create_tables">>
    /\ bootError = ""
    /\ starts = 1
    /\ databases = {MYSQL_DB}
    /\ tables = {TableName}
    /\ schemaAtStart = [databases |-> {}, tables |-> {}]
    /\ committed = {}
    /\ pc = [r \in Reqs |-> "idle"]
    /\ args = [r \in Reqs |-> NoArgs]
    /\ request_id = [r \in Reqs |-> 0]
    /\ session = [r \in Reqs |-> NoSession]
    /\ trace = [r \in Reqs |-> <<>>]
    /\ handler_out = [r \in Reqs |-> NoOutcome]
    /\ scope_out = [r \in Reqs |-> NoOutcome]
    /\ next_out = [r \in Reqs |-> NoOutcome]
    /\ final = [r \in Reqs |-> NoOutcome]

NextServe == Admit \/ Serve

SpecServe == InitServe /\ [][NextServe]_vars

\* ------------------------------------------------------------------ claims
Count(seq, ev) == Cardinality({k \in DOMAIN seq : seq[k].ev = ev})
Has(seq, ev) == \E k \in DOMAIN seq : seq[k].ev = ev
Before(seq, e1, e2) == \E k, m \in DOMAIN seq : k < m /\ seq[k].ev = e1 /\ seq[m].ev = e2
RowsOf(r) == {row \in committed : row.req = r}
ScopeLeft(r) == pc[r] \in {"respond", "done"}
NonFinite(r) == pc[r] # "idle" /\ (~IsFinite(args[r].a) \/ ~IsFinite(args[r].b))

\* C1 (as claimed): every request that went through log_requests has
\* exactly one REQUEST_START and exactly one REQUEST_END line, START before
\* END, both with the request's correlation id, also when call_next raised.
C1_StartEndOnce ==
    \A r \in Reqs :
        /\ Count(trace[r], "REQUEST_END") <= 1
        /\ pc[r] # "idle" => Count(trace[r], "REQUEST_START") = 1
        /\ pc[r] = "done" =>
              /\ Count(trace[r], "REQUEST_END") = 1
              /\ Before(trace[r], "REQUEST_START", "REQUEST_END")
              /\ \A k \in DOMAIN trace[r] :
                    trace[r][k].ev \in {"REQUEST_START", "REQUEST_END"}
                        => trace[r][k].id = request_id[r]

\* C2: a session that was acquired is closed exactly once by the time
\* get_db is left, on the normal path, when the handler failed and when
\* db.rollback() itself failed; it is never closed twice and never still
\* open once the scope was left.
C2_ReleasedExactlyOnce ==
    \A r \in Reqs :
        /\ session[r].closes <= 1
        /\ Count(trace[r], "db.close") = session[r].closes
        /\ session[r].state = "open" => pc[r] \in {"add", "scope"}
        /\ ScopeLeft(r) => session[r].state = "closed" /\ session[r].closes = 1

\* C2 witness: a finished request whose db.rollback() raised, closed once.
C2_Witness ==
    \E r \in Reqs :
        /\ pc[r] = "done"
        /\ Has(trace[r], "db.rollback!")
        /\ session[r].closes = 1

C4_SucceedsOnKthProbe ==
    firstOk # 0 =>
        /\ firstOk \in 1..MaxAttempts
        /\ probes = firstOk
        /\ i = firstOk - 1
        /\ boot \in {"create_db", "create_tables", "ready", "fatal"}
        /\ bootError # "RuntimeError"
        /\ boot = "fatal" => bootError = "OperationalError"
        /\ boot = "ready" =>
              /\ bootError = ""
              /\ databases = {MYSQL_DB}
              /\ tables = {TableName}

\* C4 witness: the store answered the 30th probe and start-up finished.
C4_Witness ==
    /\ firstOk = MaxAttempts
    /\ boot = "ready"

\* C5: when all 30 probes failed, start-up ends in RuntimeError after
\* exactly 30 probes, no provisioning statement was issued, the schema is
\* as it was, and no request is taken; a request is only ever taken by a
\* process whose start-up finished.
C5_ExhaustionIsFatal ==
    /\ probes <= MaxAttempts
    /\ probes = MaxAttempts /\ firstOk = 0 => boot \in {"sleep", "fatal"}
    /\ boot = "fatal" /\ firstOk = 0 => bootError = "RuntimeError"
    /\ bootError = "RuntimeError" =>
          /\ boot = "fatal"
          /\ probes = MaxAttempts
          /\ firstOk = 0
          /\ provOps = <<>>
          /\ Schema = schemaAtStart
          /\ \A r \in Reqs : pc[r] = "idle"
    /\ boot # "ready" => \A r \in Reqs : pc[r] = "idle"

\* C5 witness: start-up ended in RuntimeError after 30 failed probes.
C5_Witness ==
    /\ boot = "fatal"
    /\ bootError = "RuntimeError"
    /\ probes = MaxAttempts

\* C6: provisioning never fails because an object is already there, never
\* removes one, leaves a store that already had the database and the table
\* exactly as it was, and from any prior state ends with exactly the
\* database and the table.
C6_ProvisioningIdempotent ==
    /\ bootError \notin {"DatabaseExists", "TableExists"}
    /\ schemaAtStart.databases \subseteq databases
    /\ schemaAtStart.tables \subseteq tables
    /\ schemaAtStart = [databases |-> {MYSQL_DB}, tables |-> {TableName}]
          => Schema = schemaAtStart
    /\ boot = "ready" => Schema = [databases |-> {MYSQL_DB}, tables |-> {TableName}]

\* C6 witness: a second start against the database and table that the
\* first one left ran to its end.
C6_Witness ==
    /\ starts = 2
    /\ boot = "ready"
    /\ provOps = <<"create_database", "create_tables">>
    /\ schemaAtStart = [databases |-> {MYSQL_DB}, tables |-> {TableName}]

C8_NonFiniteRejected ==
    \A r \in Reqs :
        NonFinite(r) /\ pc[r] = "done" =>
            /\ final[r].kind = "response"
            /\ final[r].status \in 400..499
            /\ RowsOf(r) = {}
            /\ session[r].state = "none"

C10_OutcomeUnaltered ==
    \A r \in Reqs :
        pc[r] = "done" =>
            /\ final[r] = next_out[r]
            /\ Count(trace[r], "DB_SESSION_OPENED") = 1
            /\ Count(trace[r], "USER_ACTION") = 1

\* C11: in every successful invocation of the scope the transaction is
\* committed (db.commit() in the handler) exactly once, the commit comes
\* before db.close(), no commit follows the close, and DB_SESSION_COMMIT is
\* logged before the close; the committed row is there when the handle is
\* released.
C11_CommitBeforeRelease ==
    \A r \in Reqs :
        /\ ~Before(trace[r], "db.close", "db.commit")
        /\ ~Before(trace[r], "db.close", "DB_SESSION_COMMIT")
        /\ handler_out[r].kind = "response" =>
              /\ Count(trace[r], "db.commit") = 1
              /\ Cardinality(RowsOf(r)) = 1
              /\ ScopeLeft(r) =>
                    /\ Before(trace[r], "db.commit", "db.close")
                    /\ Before(trace[r], "DB_SESSION_COMMIT", "db.close")
                    /\ Count(trace[r], "db.close") = 1

\* C11 witness: a successful invocation whose handle was released.
C11_Witness ==
    \E r \in Reqs :
        /\ handler_out[r].kind = "response"
        /\ session[r].state = "closed"
        /\ RowsOf(r) # {}

\* C12: a failed probe is not fatal (start-up is in the retry, nothing was
\* provisioned, no error is recorded), whereas a provisioning statement that
\* raised ends start-up for good: the loop was left at the successful probe
\* and is not entered again, each provisioning statement was issued at most
\* once, in order, and no request is taken.
C12_ProbeRetriedProvisioningFatal ==
    /\ boot \in {"probe", "sleep"} =>
          /\ bootError = ""
          /\ firstOk = 0
          /\ provOps = <<>>
    /\ boot = "sleep" => probes = i + 1
    /\ boot = "probe" => probes = i
    /\ provOps \in {<<>>, <<"create_database">>, <<"create_database", "create_tables">>}
    /\ bootError = "OperationalError" =>
          /\ boot = "fatal"
          /\ firstOk # 0
          /\ probes = firstOk
          /\ provOps # <<>>
          /\ \A r \in Reqs : pc[r] = "idle"
    /\ boot = "fatal" => bootError \in {"RuntimeError", "OperationalError"}

\* C12 witness: probes failed and were retried, then a provisioning
\* statement raised and start-up ended.
C12_Witness ==
    /\ boot = "fatal"
    /\ bootError = "OperationalError"
    /\ sleeps > 0
    /\ provOps = <<"create_database", "create_tables">>

\* C13: under every interleaving each request that is inside the scope
\* holds a session of its own: two requests whose sessions are open never
\* hold the same handle, a session is open only while its request is in the
\* handler or the scope, and a finished request holds none.
C13_OwnHandlePerRequest ==
    /\ \A r, q \in Reqs :
          (r # q /\ session[r].state = "open" /\ session[q].state = "open")
              => session[r].handle # session[q].handle
    /\ \A r \in Reqs :
          /\ pc[r] \in {"add", "scope"} => session[r].state = "open" /\ session[r].handle # 0
          /\ session[r].state = "open" => pc[r] \in {"add", "scope"}
          /\ pc[r] = "done" => session[r].state = "closed"

\* C13 witness: two requests are inside the scope at the same time.
C13_Witness ==
    \E r, q \in Reqs :
        /\ r # q
        /\ session[r].state = "open"
        /\ session[q].state = "open"
        /\ pc[r] = "scope"
        /\ pc[q] = "add"

\* C14: a request whose handler succeeded has its one row committed, with
\* its own operands, in every later state, whatever the other requests do
\* (fail, roll back, finish), and its response is the success payload; a
\* request that failed has no row.
C14_FailuresContained ==
    \A r \in Reqs :
        /\ handler_out[r].kind = "response" =>
              /\ RowsOf(r) = {Calculation(args[r].a, args[r].b, handler_out[r].result, r)}
              /\ pc[r] = "done" => final[r] = handler_out[r]
        /\ handler_out[r].kind = "raise" => RowsOf(r) = {}
        /\ pc[r] \in {"idle", "call_next", "add"} => RowsOf(r) = {}

\* C14 witness: while a request with a committed row is still inside the
\* scope, another request, which had failed with its row pending, has been
\* rolled back.
C14_Witness ==
    \E r, q \in Reqs :
        /\ r # q
        /\ pc[r] = "scope"
        /\ handler_out[r].kind = "response"
        /\ RowsOf(r) # {}
        /\ Has(trace[q], "db.commit!")
        /\ Has(trace[q], "db.rollback")
        /\ ScopeLeft(q)

\* C15: within a request REQUEST_START is logged before the dispatch to
\* call_next begins, so it is the first event of the request and is logged
\* once, and REQUEST_END is logged only once the dispatch has come back
\* with a response, as the last event of the request; meanwhile the other
\* requests run through any of their steps.
C15_StartDispatchEnd ==
    \A r \in Reqs :
        /\ pc[r] # "idle" => Len(trace[r]) >= 1 /\ trace[r][1].ev = "REQUEST_START"
        /\ pc[r] = "call_next" => Len(trace[r]) = 1
        /\ \A k \in DOMAIN trace[r] :
              /\ trace[r][k].ev = "REQUEST_START" => k = 1
              /\ trace[r][k].ev = "REQUEST_END" =>
                    /\ k = Len(trace[r])
                    /\ pc[r] = "done"
                    /\ next_out[r].kind = "response"
                    /\ Before(trace[r], "REQUEST_START", "DB_SESSION_OPENED")
                    /\ Before(trace[r], "DB_SESSION_CLOSED", "REQUEST_END")
        /\ pc[r] \in {"call_next", "add", "scope", "respond"} => next_out[r] = NoOutcome

\* C15 witness: one request ran from REQUEST_START to REQUEST_END while
\* another, which had logged its REQUEST_START, was still waiting to be
\* dispatched.
C15_Witness ==
    \E r, q \in Reqs :
        /\ r # q
        /\ pc[r] = "call_next"
        /\ pc[q] = "done"
        /\ Has(trace[q], "REQUEST_END")

\* C16: a provisioning statement is issued only after a probe succeeded,
\* and that probe was the last one; create-tables is only ever the second
\* statement, after create-database, against a store that has the
\* database; and a request is in progress only in a process whose probe,
\* create-database and create-tables all went through.
C16_BootstrapOrderGates ==
    /\ provOps # <<>> => firstOk # 0 /\ probes = firstOk
    /\ Len(provOps) <= 2
    /\ \A k \in DOMAIN provOps :
          /\ provOps[k] = "create_database" => k = 1
          /\ provOps[k] = "create_tables" =>
                k = 2 /\ provOps[1] = "create_database" /\ MYSQL_DB \in databases
    /\ boot = "create_tables" => provOps = <<"create_database">>
    /\ boot = "ready" =>
          /\ provOps = <<"create_database", "create_tables">>
          /\ bootError = ""
          /\ Schema = [databases |-> {MYSQL_DB}, tables |-> {TableName}]
    /\ \A r \in Reqs : pc[r] # "idle" => boot = "ready" /\ firstOk # 0

\* C16 witness: a request was taken by a process that reached the store
\* only after failed probes.
C16_Witness ==
    /\ \E r \in Reqs : pc[r] # "idle"
    /\ firstOk > 1
    /\ sleeps > 0

\* C17: no step of any request removes or changes a committed row: the
\* set of committed rows after a step contains the set before it.
C17_CommittedOnlyGrows == [][committed \subseteq committed']_vars

\* C17 witness: one request finished with its row committed and another
\* finished after a failure and a rollback.
C17_Witness ==
    \E r, q \in Reqs :
        /\ r # q
        /\ pc[r] = "done"
        /\ pc[q] = "done"
        /\ Cardinality(committed) = 1
        /\ RowsOf(r) = committed
        /\ handler_out[q].kind = "raise"

\* C18: a request whose handler returned the success payload went through
\* db.commit() before ADD_SUCCESS and has exactly one committed row; a
\* request whose db.add() or db.commit() raised has no success payload,
\* neither from the handler nor as its final response, and no row.
C18_SuccessOnlyAfterCommit ==
    \A r \in Reqs :
        /\ (handler_out[r].kind = "response" \/ final[r].status = OkStatus) =>
              /\ handler_out[r].status = OkStatus
              /\ Count(trace[r], "db.commit") = 1
              /\ Before(trace[r], "db.commit", "ADD_SUCCESS")
              /\ ~Has(trace[r], "db.commit!")
              /\ ~Has(trace[r], "db.add!")
              /\ Cardinality(RowsOf(r)) = 1
        /\ (Has(trace[r], "db.commit!") \/ Has(trace[r], "db.add!")) =>
              /\ handler_out[r].kind = "raise"
              /\ final[r].status # OkStatus
              /\ ~Has(trace[r], "ADD_SUCCESS")
              /\ RowsOf(r) = {}

\* C18 witness: one request got its success payload as final response and
\* another finished after its db.commit() raised.
C18_Witness ==
    \E r, q \in Reqs :
        /\ final[r].kind = "response"
        /\ final[r].status = OkStatus
        /\ pc[q] = "done"
        /\ Has(trace[q], "db.commit!")

\* C19: a session scope that was entered logged DB_SESSION_OPENED once;
\* once it is left it has logged, after OPENED and before one
\* DB_SESSION_CLOSED, exactly one of DB_SESSION_COMMIT and
\* DB_SESSION_ROLLBACK: COMMIT exactly when the handler raised nothing,
\* ROLLBACK exactly when it raised; the two are never both logged, and
\* none of the three is logged before the handler is through.
C19_DebugEventSequence ==
    \A r \in Reqs :
        /\ session[r].state # "none" => Count(trace[r], "DB_SESSION_OPENED") = 1
        /\ session[r].state = "none" => ~Has(trace[r], "DB_SESSION_OPENED")
        /\ ~(Has(trace[r], "DB_SESSION_COMMIT") /\ Has(trace[r], "DB_SESSION_ROLLBACK"))
        /\ ~ScopeLeft(r) =>
              /\ ~Has(trace[r], "DB_SESSION_COMMIT")
              /\ ~Has(trace[r], "DB_SESSION_ROLLBACK")
              /\ ~Has(trace[r], "DB_SESSION_CLOSED")
        /\ ScopeLeft(r) =>
              /\ Count(trace[r], "DB_SESSION_COMMIT")
                    + Count(trace[r], "DB_SESSION_ROLLBACK") = 1
              /\ Count(trace[r], "DB_SESSION_CLOSED") = 1
              /\ Has(trace[r], "DB_SESSION_COMMIT") <=> handler_out[r].kind = "response"
              /\ Has(trace[r], "DB_SESSION_ROLLBACK") <=> handler_out[r].kind = "raise"
              /\ \/ /\ Before(trace[r], "DB_SESSION_OPENED", "DB_SESSION_COMMIT")
                    /\ Before(trace[r], "DB_SESSION_COMMIT", "DB_SESSION_CLOSED")
                 \/ /\ Before(trace[r], "DB_SESSION_OPENED", "DB_SESSION_ROLLBACK")
                    /\ Before(trace[r], "DB_SESSION_ROLLBACK", "DB_SESSION_CLOSED")

\* C19 witness: one scope was left by the commit path and another by the
\* rollback path.
C19_Witness ==
    \E r, q \in Reqs :
        /\ ScopeLeft(r)
        /\ ScopeLeft(q)
        /\ Has(trace[r], "DB_SESSION_COMMIT")
        /\ Has(trace[q], "DB_SESSION_ROLLBACK")

\* C20: every failed probe is followed by one sleep, the last one too: a
\* start that reached the store on probe k slept k-1 times and not again,
\* a start that gave up made 30 probes and slept 30 times before the
\* RuntimeError, and no start makes more than 30 probes.
C20_OneSleepPerFailedProbe ==
    /\ probes <= MaxAttempts
    /\ sleeps <= MaxAttempts
    /\ firstOk # 0 => sleeps = firstOk - 1 /\ probes = firstOk
    /\ boot = "sleep" => firstOk = 0 /\ sleeps = probes - 1
    /\ boot = "probe" => firstOk = 0 /\ sleeps = probes /\ probes = i
    /\ bootError = "RuntimeError" => probes = MaxAttempts /\ sleeps = MaxAttempts

\* C20 witness: a start gave up after the sleep that followed the 30th
\* failed probe.
C20_Witness ==
    /\ bootError = "RuntimeError"
    /\ sleeps = MaxAttempts
    /\ firstOk = 0

====
